---- MODULE Spec2Model ----
(***************************************************************************)
(* Model of the transaction de-duplication pipelines                       *)
(* (finance_cleaner.clean_transactions, csv_reader.read_transactions) and  *)
(* of the rule based classifier (rules_engine.RuleEngine).                 *)
(*                                                                         *)
(* A text is a sequence of one-character strings, so that joining,         *)
(* stripping and parsing are computed character by character.  A cell of   *)
(* a text column is [na, s] (na = the cell is missing, pandas NaN); a cell *)
(* of a numeric column is [na, n] with n the amount in cents.              *)
(***************************************************************************)
EXTENDS Integers, Sequences, FiniteSets, TLC

VARIABLES
    variant,        \* which pipeline runs: "finance_cleaner" or "csv_reader"
    pc,             \* position in the pipeline / in classify_item
    df_read,        \* df after the files are read and concatenated
    df_typed,       \* df after the type conversions
    df_hashed,      \* df after the fingerprints and RowID are attached
    df_merged,      \* df after phase 1 (merge on the source-including key)
    df_out,         \* df after phase 2 (drop on the source-excluding key)
    sha,            \* the SHA-256 prefixes of the texts hashed in this run
    item,           \* classify_item: the item being classified
    ruleIdx,        \* classify_item: index of the rule evaluated next
    result,         \* classify_item: what the call produced
    flags_in,       \* the Is Hidden / Is Pending cells of a row as read
    flags_out       \* the same cells after the flag conversion

vars == <<variant, pc, df_read, df_typed, df_hashed, df_merged, df_out, sha,
          item, ruleIdx, result, flags_in, flags_out>>

dedupVars == <<variant, df_read, df_typed, df_hashed, df_merged, df_out, sha>>
ruleVars == <<item, ruleIdx, result>>
flagVars == <<flags_in, flags_out>>

----------------------------------------------------------------------------
(* Bounds *)

\* Largest number of rows in the concatenated batch.
MaxRows == 2

\* Number of distinct 5-hex-character prefixes the hash may produce.
NumHash == 2

----------------------------------------------------------------------------
(* Texts *)

DigitChars == <<"0", "1", "2", "3", "4", "5", "6", "7", "8", "9">>

HexChars == DigitChars \o <<"a", "b", "c", "d", "e", "f">>

IsDigit(c) == \E d \in 1..10 : DigitChars[d] = c

DigitVal(c) == (CHOOSE d \in 1..10 : DigitChars[d] = c) - 1

RECURSIVE NatStr(_)
\* str(n) of a non-negative integer.
NatStr(n) ==
    IF n < 10 THEN <<DigitChars[n + 1]>>
    ELSE NatStr(n \div 10) \o <<DigitChars[(n % 10) + 1]>>

RECURSIVE DigitsVal(_)
\* The number written by a non-empty sequence of digits.
DigitsVal(s) ==
    IF Len(s) = 0 THEN 0
    ELSE 10 * DigitsVal(SubSeq(s, 1, Len(s) - 1)) + DigitVal(s[Len(s)])

AllDigits(s) == \A i \in 1..Len(s) : IsDigit(s[i])

RECURSIVE Filter(_, _)
\* s without the characters of the set drop.
Filter(s, drop) ==
    IF Len(s) = 0 THEN <<>>
    ELSE (IF s[1] \in drop THEN <<>> ELSE <<s[1]>>) \o Filter(Tail(s), drop)

RECURSIVE JoinAll(_)
\* "".join(vals)
JoinAll(vals) ==
    IF Len(vals) = 0 THEN <<>> ELSE vals[1] \o JoinAll(Tail(vals))

\* Position of the first "." of s, 0 when there is none.
DotPos(s) ==
    IF \E i \in 1..Len(s) : s[i] = "."
    THEN CHOOSE i \in 1..Len(s) : s[i] = "." /\ \A j \in 1..(i - 1) : s[j] # "."
    ELSE 0

NaNCell == [na |-> TRUE, n |-> 0]

Num(n) == [na |-> FALSE, n |-> n]

NAText == [na |-> TRUE, s |-> <<>>]

Text(s) == [na |-> FALSE, s |-> s]

----------------------------------------------------------------------------
(* Input: the rows of the CSV files *)

\* File names in sorted order (sorted(glob.glob(pattern))).
Files == << <<"f", "1">>, <<"f", "2">> >>

\* Cell contents as pd.read_csv delivers them: an empty field is missing.
\* The first two rows differ in Description and Category but join to the same
\* text "nanx..."; the third differs from the first in Amount only (written
\* in accounting notation); the fourth has an unparseable Amount.
RowPool ==
    { [Description |-> NAText, Category |-> Text(<<"x">>),
       Amount |-> Text(<<"-", "2", "0", ".", "0", "0">>)],
      [Description |-> Text(<<"n", "a">>), Category |-> Text(<<"n", "x">>),
       Amount |-> Text(<<"-", "2", "0", ".", "0", "0">>)],
      [Description |-> NAText, Category |-> Text(<<"x">>),
       Amount |-> Text(<<"(", "$", "2", "5", ".", "0", "0", ")">>)],
      [Description |-> NAText, Category |-> Text(<<"x">>),
       Amount |-> Text(<<"T", "B", "D">>)] }

\* The columns of the CSV files, in file order.
CsvColumns == <<"Description", "Category", "Amount">>

\* pd.concat(frames, ignore_index=True) of the frames of the files, each with
\* its SourceFile column: rows file by file, index 0..n-1.
Concat(contents, fidx) ==
    [i \in 1..Len(contents) |->
        [Description |-> contents[i].Description,
         Category |-> contents[i].Category,
         Amount |-> contents[i].Amount,
         SourceFile |-> Text(Files[fidx[i]]),
         index |-> [kind |-> "Range", pos |-> i - 1, id |-> <<>>]]]

----------------------------------------------------------------------------
(* Type conversions *)

\* pd.to_numeric(text, errors="coerce") for amounts of at most two decimals:
\* an optional sign, digits, an optional point and decimals; else NaN.
ToNumeric(s) ==
    LET signed == Len(s) > 0 /\ s[1] \in {"-", "+"}
        body == IF signed THEN Tail(s) ELSE s
        dot == DotPos(body)
        ip == IF dot = 0 THEN body ELSE SubSeq(body, 1, dot - 1)
        fp == IF dot = 0 THEN <<>> ELSE SubSeq(body, dot + 1, Len(body))
        ok == /\ AllDigits(ip) /\ AllDigits(fp)
              /\ Len(ip) + Len(fp) > 0
              /\ Len(fp) <= 2
        cents == 100 * DigitsVal(ip)
                 + (IF Len(fp) = 0 THEN 0
                    ELSE IF Len(fp) = 1 THEN 10 * DigitVal(fp[1])
                    ELSE DigitsVal(fp))
    IN  IF ~ok THEN NaNCell
        ELSE IF signed /\ s[1] = "-" THEN Num(0 - cents) ELSE Num(cents)

\* cleaned.str.replace(r"^\(([-\d.]+)\)$", r"-\1", regex=True)
ParenToMinus(s) ==
    IF /\ Len(s) >= 3
       /\ s[1] = "(" /\ s[Len(s)] = ")"
       /\ \A i \in 2..(Len(s) - 1) : IsDigit(s[i]) \/ s[i] \in {"-", "."}
    THEN <<"-">> \o SubSeq(s, 2, Len(s) - 1)
    ELSE s

\* str() of a text cell: a missing cell prints as "nan".
TextStr(cell) == IF cell.na THEN <<"n", "a", "n">> ELSE cell.s

\* _parse_amount for one cell.
ParseAmount(cell) ==
    ToNumeric(ParenToMinus(Filter(TextStr(cell), {"$", ",", " "})))

\* convert_types / step 2 of read_transactions, for the modelled columns.
ConvertTypes(df) ==
    [i \in 1..Len(df) |-> [df[i] EXCEPT !.Amount = ParseAmount(df[i].Amount)]]

----------------------------------------------------------------------------
(* Fingerprints *)

\* Number of hex characters kept of the digest.
HashLen == 5

\* The values hexdigest()[:5] may take, as numbers.
HashVals == 0..(NumHash - 1)

RECURSIVE HexStr(_, _)
\* n written with exactly w hex characters.
HexStr(n, w) ==
    IF w = 0 THEN <<>>
    ELSE HexStr(n \div 16, w - 1) \o <<HexChars[(n % 16) + 1]>>

\* str(float) of an amount in cents: -2000 -> "-20.0", -2050 -> "-20.5".
FloatStr(n) ==
    LET a == IF n < 0 THEN 0 - n ELSE n
        fr == a % 100
    IN  (IF n < 0 THEN <<"-">> ELSE <<>>)
        \o NatStr(a \div 100) \o <<".">>
        \o (IF fr % 10 = 0 THEN <<DigitChars[(fr \div 10) + 1]>>
            ELSE <<DigitChars[(fr \div 10) + 1], DigitChars[(fr % 10) + 1]>>)

\* row.astype(str) for one column of the row.
StrOf(row, col) ==
    IF col = "Amount"
    THEN (IF row.Amount.na THEN <<"n", "a", "n">> ELSE FloatStr(row.Amount.n))
    ELSE IF col \in {"IntraKey", "CrossKey"} THEN HexStr(row[col], HashLen)
    ELSE TextStr(row[col])

\* The text _row_hash digests: the values of the columns, joined without a
\* separator, SourceFile left out unless include_source.
Joined(row, cols, include_source) ==
    LET keep == IF include_source THEN cols
                ELSE SelectSeq(cols, LAMBDA c : c # "SourceFile")
    IN  JoinAll([i \in 1..Len(keep) |-> StrOf(row, keep[i])])

\* _row_hash, with h the prefixes of the digests.
RowHash(h, row, cols, include_source) == h[Joined(row, cols, include_source)]

\* The columns of df when the fingerprints are computed.
Columns == CsvColumns \o <<"SourceFile">>

\* The source-excluding fingerprint of every row (IntraKey in
\* finance_cleaner, TransactionFingerprint in csv_reader).
WithIntraKey(df, h) ==
    [i \in 1..Len(df) |->
        df[i] @@ [IntraKey |-> RowHash(h, df[i], Columns, FALSE)]]

\* The columns a row has when its source-including fingerprint is computed:
\* csv_reader has added the TransactionFingerprint column by then.
CrossColumns(v) ==
    IF v = "csv_reader" THEN Columns \o <<"IntraKey">> ELSE Columns

\* The source-including fingerprint of every row (CrossKey in
\* finance_cleaner, UniqueRowFingerprint in csv_reader).
WithCrossKey(df, h, v) ==
    [i \in 1..Len(df) |->
        df[i] @@ [CrossKey |-> RowHash(h, df[i], CrossColumns(v), TRUE)]]

\* The texts digested for the two fingerprints.
IntraTexts(df) == {Joined(df[i], Columns, FALSE) : i \in 1..Len(df)}

CrossTexts(df, v) == {Joined(df[i], CrossColumns(v), TRUE) : i \in 1..Len(df)}

\* df.groupby(key).cumcount() of row i: rows before it with the same key.
CumCount(df, key, i) ==
    Cardinality({j \in 1..(i - 1) : df[j][key] = df[i][key]})

\* Variant of RowID: the counter starts at 0.
RowID_ZeroBased(df, i) ==
    HexStr(df[i].CrossKey, HashLen) \o <<"_">>
    \o NatStr(CumCount(df, "CrossKey", i))

\* CrossKey + "_" + str(cumcount + 1)
RowID(df, i) ==
    HexStr(df[i].CrossKey, HashLen) \o <<"_">>
    \o NatStr(CumCount(df, "CrossKey", i) + 1)

\* df.set_index("RowID")
SetRowIDIndex(df) ==
    [i \in 1..Len(df) |->
        [df[i] EXCEPT !.index = [kind |-> "RowID", pos |-> 0, id |-> RowID(df, i)]]]

\* add_row_hashes / steps 3 of read_transactions.
AddRowHashes(df, h, v) ==
    SetRowIDIndex(WithCrossKey(WithIntraKey(df, h), h, v))

----------------------------------------------------------------------------
(* De-duplication *)

RECURSIVE SortSet(_)
\* The numbers of S in ascending order (groupby sorts the group keys).
SortSet(S) ==
    IF S = {} THEN <<>>
    ELSE LET m == CHOOSE x \in S : \A y \in S : x <= y
         IN  <<m>> \o SortSet(S \ {m})

\* The rows of df at the positions in keep, in df's order.
RowsAt(df, keep) ==
    LET pos == SortSet(keep) IN [i \in 1..Len(pos) |-> df[pos[i]]]

\* The rows of one group, in df's order.
Group(df, key, k) == RowsAt(df, {i \in 1..Len(df) : df[i][key] = k})

\* Variant of SumSkipNA: the group keeps the amount of its first row.
SumSkipNA_KeepFirst(g) == IF g[1].Amount.na THEN 0 ELSE g[1].Amount.n

RECURSIVE SumSkipNA(_)
\* GroupBy "sum" of the Amount column: missing values are skipped and the
\* sum of no values is 0.
SumSkipNA(g) ==
    IF Len(g) = 0 THEN 0
    ELSE (IF g[1].Amount.na THEN 0 ELSE g[1].Amount.n) + SumSkipNA(Tail(g))

\* GroupBy "first" of a text column: the first value that is not missing.
FirstText(g, col) ==
    IF \A i \in 1..Len(g) : g[i][col].na THEN NAText
    ELSE g[CHOOSE i \in 1..Len(g) :
               ~g[i][col].na /\ \A j \in 1..(i - 1) : g[j][col].na][col]

\* Variant of Coalesce: the sum of a group starts from the amount of the
\* group's first row, which is then added again with the others.
Coalesce_SeededSum(df, key) ==
    LET keys == SortSet({df[i][key] : i \in 1..Len(df)})
    IN  [i \in 1..Len(keys) |->
            LET g == Group(df, key, keys[i])
            IN  [Description |-> FirstText(g, "Description"),
                 Category |-> FirstText(g, "Category"),
                 Amount |-> Num(SumSkipNA(<<g[1]>>) + SumSkipNA(g)),
                 SourceFile |-> FirstText(g, "SourceFile"),
                 IntraKey |-> g[1].IntraKey,
                 CrossKey |-> g[1].CrossKey,
                 index |-> [kind |-> "Range", pos |-> i - 1, id |-> <<>>]]]

\* grouped.agg(agg_spec).reset_index(): one row per key value, in ascending
\* key order, numeric columns summed, the others "first", a fresh index.
Coalesce(df, key) ==
    LET keys == SortSet({df[i][key] : i \in 1..Len(df)})
    IN  [i \in 1..Len(keys) |->
            LET g == Group(df, key, keys[i])
            IN  [Description |-> FirstText(g, "Description"),
                 Category |-> FirstText(g, "Category"),
                 Amount |-> Num(SumSkipNA(g)),
                 SourceFile |-> FirstText(g, "SourceFile"),
                 IntraKey |-> g[1].IntraKey,
                 CrossKey |-> g[1].CrossKey,
                 index |-> [kind |-> "Range", pos |-> i - 1, id |-> <<>>]]]

\* Variant of DropDuplicates: duplicates are looked for on the
\* source-including key whatever key is asked for.
DropDuplicates_OnCrossKey(df, key) ==
    RowsAt(df, {i \in 1..Len(df) :
                   \A j \in 1..(i - 1) : df[j].CrossKey # df[i].CrossKey})

\* df.drop_duplicates(subset=key, keep="first")
DropDuplicates(df, key) ==
    RowsAt(df, {i \in 1..Len(df) : \A j \in 1..(i - 1) : df[j][key] # df[i][key]})

----------------------------------------------------------------------------
(* The pipeline *)

\* The classifier's variables while no item is being classified: the item is
\* Python's None and nothing has been returned.
NoItem == [kind |-> "None", keys |-> {}, Category |-> "", Description |-> <<>>,
           Amount |-> 0]

NoResult == [status |-> "pending", category |-> "None"]

Variants == {"finance_cleaner", "csv_reader"}

\* The boolean-like columns.
FlagColumns == {"Is Hidden", "Is Pending"}

\* The flag variables while no flag is being converted.
NoFlags == [c \in FlagColumns |-> NAText]

NoFlagsOut == [c \in FlagColumns |-> "unset"]

Init ==
    /\ variant \in Variants
    /\ pc = "start"
    /\ df_read = <<>> /\ df_typed = <<>> /\ df_hashed = <<>>
    /\ df_merged = <<>> /\ df_out = <<>>
    /\ sha = <<>>
    /\ item = NoItem /\ ruleIdx = 0 /\ result = NoResult
    /\ flags_in = NoFlags /\ flags_out = NoFlagsOut

\* The files are read in sorted name order and concatenated; when no file
\* matches (n = 0) the pipeline returns the empty frame at once.
ReadTransactions ==
    /\ pc = "start"
    /\ \E n \in 0..MaxRows :
         \E contents \in [1..n -> RowPool], fidx \in [1..n -> 1..Len(Files)] :
            /\ \A i \in 1..(n - 1) : fidx[i] <= fidx[i + 1]
            /\ df_read' = Concat(contents, fidx)
            /\ pc' = IF n = 0 THEN "done" ELSE "read"
    /\ UNCHANGED <<variant, df_typed, df_hashed, df_merged, df_out, sha, ruleVars, flagVars>>

ConvertTypesStep ==
    /\ pc = "read"
    /\ df_typed' = ConvertTypes(df_read)
    /\ pc' = "typed"
    /\ UNCHANGED <<variant, df_read, df_hashed, df_merged, df_out, sha, ruleVars, flagVars>>

\* The digests are those of SHA-256; the model takes any assignment of
\* prefixes to the texts hashed.
AddRowHashesStep ==
    /\ pc = "typed"
    /\ \E h1 \in [IntraTexts(df_typed) -> HashVals] :
         LET d1 == WithIntraKey(df_typed, h1)
             more == CrossTexts(d1, variant) \ DOMAIN h1
         IN  \E h2 \in [more -> HashVals] :
                /\ sha' = h1 @@ h2
                /\ df_hashed' = AddRowHashes(df_typed, h1 @@ h2, variant)
    /\ pc' = "hashed"
    /\ UNCHANGED <<variant, df_read, df_typed, df_merged, df_out, ruleVars, flagVars>>

\* Phase 1: coalesce_duplicates(df, key="CrossKey") / _merge_duplicates(df).
CoalesceDuplicates ==
    /\ pc = "hashed"
    /\ df_merged' = Coalesce(df_hashed, "CrossKey")
    /\ pc' = "merged"
    /\ UNCHANGED <<variant, df_read, df_typed, df_hashed, df_out, sha, ruleVars, flagVars>>

\* Phase 2: remove_duplicates(df, key="IntraKey") / drop_duplicates.
RemoveDuplicates ==
    /\ pc = "merged"
    /\ df_out' = DropDuplicates(df_merged, "IntraKey")
    /\ pc' = "done"
    /\ UNCHANGED <<variant, df_read, df_typed, df_hashed, df_merged, sha, ruleVars, flagVars>>

Next ==
    \/ ReadTransactions
    \/ ConvertTypesStep
    \/ AddRowHashesStep
    \/ CoalesceDuplicates
    \/ RemoveDuplicates

Spec == Init /\ [][Next]_vars

\* The most copies of one row in a batch.
MaxCopies == 3

\* read_transactions on exports that overlap: the batch holds one row n1
\* times in the first file and n2 times in the second.
ReadCopies ==
    /\ pc = "start"
    /\ \E r \in RowPool, n1 \in 0..MaxCopies, n2 \in 0..MaxCopies :
         /\ n1 + n2 <= MaxCopies
         /\ df_read' = Concat([i \in 1..(n1 + n2) |-> r],
                              [i \in 1..(n1 + n2) |-> IF i <= n1 THEN 1 ELSE 2])
         /\ pc' = IF n1 + n2 = 0 THEN "done" ELSE "read"
    /\ UNCHANGED <<variant, df_typed, df_hashed, df_merged, df_out, sha, ruleVars, flagVars>>

NextCopies ==
    \/ ReadCopies
    \/ ConvertTypesStep
    \/ AddRowHashesStep
    \/ CoalesceDuplicates
    \/ RemoveDuplicates

SpecCopies == Init /\ [][NextCopies]_vars

----------------------------------------------------------------------------
(* The rule engine *)

\* Category: the members of the enum and their values.
CategoryValue ==
    [GROCERIES |-> "Groceries", RESTAURANTS |-> "Restaurants",
     SALARY |-> "Salary", ELECTRICITY |-> "Electricity", SAVINGS |-> "Savings",
     RIDESHARE |-> "Rideshare", UNCATEGORIZED |-> "Uncategorized"]

Categories == DOMAIN CategoryValue

\* The outcome of evaluating a Python expression: a value or an exception.
Ret(v) == [exc |-> "none", val |-> v]

Raise(e) == [exc |-> e, val |-> FALSE]

\* a and b, b evaluated only when a is true.
PyAnd(a, b) == IF a.exc # "none" \/ ~a.val THEN a ELSE b

UpperChars == <<"A", "B", "D", "E", "K", "L", "N", "S", "Y", "M", "O", "V",
                "T", "R", "U", "F">>

LowerChars == <<"a", "b", "d", "e", "k", "l", "n", "s", "y", "m", "o", "v",
                "t", "r", "u", "f">>

\* str.lower(), over the letters the descriptions use.
Lower(s) ==
    [i \in 1..Len(s) |->
        IF \E u \in 1..Len(UpperChars) : UpperChars[u] = s[i]
        THEN LowerChars[CHOOSE u \in 1..Len(UpperChars) : UpperChars[u] = s[i]]
        ELSE s[i]]

\* sub in s
Contains(s, sub) ==
    \E i \in 1..(Len(s) - Len(sub) + 1) : SubSeq(s, i, i + Len(sub) - 1) = sub

\* is_category_equal: item["Category"] == candidate.  Subscripting what is
\* not a dict with a string raises TypeError, a missing key KeyError.
IsCategoryEqual(it, candidate) ==
    IF it.kind # "dict" THEN Raise("TypeError")
    ELSE IF "Category" \notin it.keys THEN Raise("KeyError")
    ELSE Ret(it.Category = candidate)

\* description_has(item, substr), called with the positional arguments args:
\* a call that does not pass both raises TypeError.
DescriptionHas(args) ==
    IF Len(args) # 2 THEN Raise("TypeError")
    ELSE LET it == args[1]
             substr == args[2]
         IN  IF it.kind # "dict" \/ it.keys = {} THEN Ret(FALSE)
             ELSE IF "Description" \notin it.keys \/ Len(it.Description) = 0
                  THEN Ret(FALSE)
             ELSE IF Len(substr) = 0 THEN Ret(FALSE)
             ELSE Ret(Contains(Lower(it.Description), Lower(substr)))

AllyText == <<"A", "L", "L", "Y", " ", "B", "A", "N", "K", " ", "D", "E", "S">>

\* self.rules: description and category of each rule, in declaration order.
Rules ==
    << [description |-> "Keep groceries the same", category |-> "GROCERIES"],
       [description |-> "Keep dining the same", category |-> "RESTAURANTS"],
       [description |-> "Keep utilities the same", category |-> "ELECTRICITY"],
       [description |-> "Keep salary the same", category |-> "SALARY"],
       [description |-> "Keep rideshare the same", category |-> "RIDESHARE"],
       [description |-> "Ally HYSA", category |-> "SAVINGS"],
       [description |-> "Fallback: Uncategorized transactions",
        category |-> "UNCATEGORIZED"] >>

\* The condition lambda of rule r, evaluated on the item.
Condition(r, it) ==
    CASE r = 1 -> IsCategoryEqual(it, "Groceries")
      [] r = 2 -> IsCategoryEqual(it, "Restaurants/Dining")
      [] r = 3 -> IsCategoryEqual(it, "Energy, Gas & Electric")
      [] r = 4 -> IsCategoryEqual(it, "Paycheck/Salary")
      [] r = 5 -> IsCategoryEqual(it, "Rideshare")
      [] r = 6 -> PyAnd(IsCategoryEqual(it, "Transfers"),
                        DescriptionHas(<<AllyText>>))
      [] r = 7 -> Ret(TRUE)

\* Variant of ApplyCondition: only KeyError is caught.
ApplyCondition_KeyErrorOnly(r, it) ==
    LET c == Condition(r, it)
    IN  IF c.exc = "KeyError" THEN Ret(FALSE) ELSE c

\* Variant of ApplyCondition: a condition that raises counts as met.
ApplyCondition_ErrorMatches(r, it) ==
    LET c == Condition(r, it)
    IN  IF c.exc \in {"KeyError", "TypeError", "AttributeError"}
        THEN Ret(TRUE) ELSE c

\* Rule.apply_condition: KeyError, TypeError and AttributeError of the
\* condition are caught and give False.
ApplyCondition(r, it) ==
    LET c == Condition(r, it)
    IN  IF c.exc \in {"KeyError", "TypeError", "AttributeError"}
        THEN Ret(FALSE) ELSE c

\* Rule.get_category: the rule's category if the condition is met, else None.
GetCategory(r, it) ==
    LET a == ApplyCondition(r, it)
    IN  IF a.exc # "none" THEN [status |-> "raised", category |-> a.exc]
        ELSE IF a.val THEN [status |-> "returned", category |-> Rules[r].category]
        ELSE [status |-> "returned", category |-> "None"]

\* The items classify_item is called with: dicts with any of the keys
\* Category, Description and Amount, and values that are not dicts.
ItemCategories ==
    {"Groceries", "Restaurants/Dining", "Energy, Gas & Electric",
     "Paycheck/Salary", "Rideshare", "Transfers", "Shopping"}

ItemDescriptions ==
    { <<"a", "l", "l", "y", " ", "b", "a", "n", "k", " ", "d", "e", "s">>,
      AllyText \o <<" ", "7">>,
      <<"V", "E", "N", "M", "O">> }

ItemAmounts == {-5, 0, 5}

Items ==
    { [kind |-> "dict", keys |-> ks,
       Category |-> IF "Category" \in ks THEN c ELSE "",
       Description |-> IF "Description" \in ks THEN d ELSE <<>>,
       Amount |-> IF "Amount" \in ks THEN a ELSE 0] :
         ks \in SUBSET {"Category", "Description", "Amount"},
         c \in ItemCategories, d \in ItemDescriptions, a \in ItemAmounts }
    \cup { [NoItem EXCEPT !.kind = k] : k \in {"None", "str", "list"} }

InitRules ==
    /\ variant = "finance_cleaner"
    /\ pc = "idle"
    /\ df_read = <<>> /\ df_typed = <<>> /\ df_hashed = <<>>
    /\ df_merged = <<>> /\ df_out = <<>>
    /\ sha = <<>>
    /\ item = NoItem /\ ruleIdx = 0 /\ result = NoResult
    /\ flags_in = NoFlags /\ flags_out = NoFlagsOut

\* classify_item(item) is called.
ClassifyItem ==
    /\ pc = "idle"
    /\ item' \in Items
    /\ ruleIdx' = 1
    /\ pc' = "classify"
    /\ UNCHANGED <<result, dedupVars, flagVars>>

\* Variant of ClassifyStep: a match is remembered and the loop goes on, so
\* the last matching rule decides.
ClassifyStep_LastMatch ==
    /\ pc = "classify"
    /\ IF ruleIdx > Len(Rules)
       THEN /\ pc' = "returned"
            /\ ruleIdx' = Len(Rules)
            /\ result' = IF result.status = "pending"
                         THEN [status |-> "returned", category |-> "UNCATEGORIZED"]
                         ELSE result
       ELSE LET c == GetCategory(ruleIdx, item)
            IN  /\ ruleIdx' = ruleIdx + 1
                /\ result' = IF c.category # "None" THEN c ELSE result
                /\ UNCHANGED pc
    /\ UNCHANGED <<item, dedupVars, flagVars>>

\* One turn of the loop over self.rules, and the return after the loop.
ClassifyStep ==
    /\ pc = "classify"
    /\ IF ruleIdx > Len(Rules)
       THEN /\ result' = [status |-> "returned", category |-> "UNCATEGORIZED"]
            /\ pc' = "returned"
            /\ UNCHANGED ruleIdx
       ELSE LET c == GetCategory(ruleIdx, item)
            IN  IF c.status = "raised" \/ c.category # "None"
                THEN /\ result' = c
                     /\ pc' = "returned"
                     /\ UNCHANGED ruleIdx
                ELSE /\ ruleIdx' = ruleIdx + 1
                     /\ UNCHANGED <<result, pc>>
    /\ UNCHANGED <<item, dedupVars, flagVars>>

NextRules == ClassifyItem \/ ClassifyStep

SpecRules == InitRules /\ [][NextRules]_vars

----------------------------------------------------------------------------
(* Flag conversion *)

\* The keys of the mapping of finance_cleaner._to_bool that a text can equal,
\* with their values; its keys True and False are booleans and equal no text.
ToBoolMapping ==
    { <<(<<"y", "e", "s">>), "True">>, <<(<<"n", "o">>), "False">>,
      <<(<<"y">>), "True">>, <<(<<"n">>), "False">> }

\* The mapping of csv_reader.read_transactions.
ReaderMapping ==
    { <<(<<"y", "e", "s">>), "True">>, <<(<<"y">>), "True">>,
      <<(<<"t", "r", "u", "e">>), "True">>,
      <<(<<"n", "o">>), "False">>, <<(<<"n">>), "False">>,
      <<(<<"f", "a", "l", "s", "e">>), "False">> }

\* Series.map(mapping) for one value: the value of its key, NaN without one.
MapValue(mapping, key) ==
    IF \E m \in mapping : m[1] = key
    THEN (CHOOSE m \in mapping : m[1] = key)[2]
    ELSE "NaN"

\* finance_cleaner: _to_bool(df[col].astype(str)) for one cell.
ToBool(cell) == MapValue(ToBoolMapping, Lower(TextStr(cell)))

\* csv_reader: df[col].astype(str).str.lower().map({...}).fillna(False)
ReaderToBool(cell) ==
    LET m == MapValue(ReaderMapping, Lower(TextStr(cell)))
    IN  IF m = "NaN" THEN "False" ELSE m

\* The flag conversion of the pipeline v for one cell.
ConvertFlag(v, cell) ==
    IF v = "csv_reader" THEN ReaderToBool(cell) ELSE ToBool(cell)

\* Flag cells as pd.read_csv delivers them; an empty field is missing.
FlagCells ==
    { NAText,
      Text(<<"y", "e", "s">>), Text(<<"Y">>), Text(<<"T", "R", "U", "E">>),
      Text(<<"T", "r", "u", "e">>),
      Text(<<"N", "o">>), Text(<<"n">>), Text(<<"F", "a", "l", "s", "e">>),
      Text(<<"m", "a", "y", "b", "e">>), Text(<<"1">>) }

InitFlags ==
    /\ variant \in Variants
    /\ pc = "flags_start"
    /\ df_read = <<>> /\ df_typed = <<>> /\ df_hashed = <<>>
    /\ df_merged = <<>> /\ df_out = <<>>
    /\ sha = <<>>
    /\ item = NoItem /\ ruleIdx = 0 /\ result = NoResult
    /\ flags_in = NoFlags /\ flags_out = NoFlagsOut

\* A row with both flag columns is read.
ReadFlags ==
    /\ pc = "flags_start"
    /\ flags_in' \in [FlagColumns -> FlagCells]
    /\ pc' = "flags_read"
    /\ UNCHANGED <<flags_out, dedupVars, ruleVars>>

\* for col in ("Is Hidden", "Is Pending"): the column is converted.
ConvertFlags ==
    /\ pc = "flags_read"
    /\ flags_out' = [c \in FlagColumns |-> ConvertFlag(variant, flags_in[c])]
    /\ pc' = "flags_typed"
    /\ UNCHANGED <<flags_in, dedupVars, ruleVars>>

NextFlags == ReadFlags \/ ConvertFlags

SpecFlags == InitFlags /\ [][NextFlags]_vars

----------------------------------------------------------------------------
(* Properties of the de-duplication pipeline *)

DataColumns == {"Description", "Category", "Amount", "SourceFile"}

\* Two rows agree on every column of cols.
SameOn(r1, r2, cols) == \A c \in cols : r1[c] = r2[c]

\* Scenario B: the batch is one file with two rows that are identical in every
\* field except Amount, -20.00 and -25.00.
ScenarioB ==
    /\ Len(df_typed) = 2
    /\ SameOn(df_typed[1], df_typed[2], DataColumns \ {"Amount"})
    /\ {df_typed[1].Amount, df_typed[2].Amount} = {Num(-2000), Num(-2500)}

\* The batch is one file with the same row twice, Amount included and parsed.
TwinRows ==
    /\ Len(df_typed) = 2
    /\ SameOn(df_typed[1], df_typed[2], DataColumns)
    /\ ~df_typed[1].Amount.na

\* C1 as stated: the two rows of Scenario B come out as one row of -45.00.
C1_ScenarioB_Original ==
    (pc = "done" /\ ScenarioB)
        => (Len(df_out) = 1 /\ df_out[1].Amount = Num(-4500))

\* C1, amended: two rows of one file that are identical in every field, Amount
\* included, come out as one row whose Amount is twice theirs; the two rows of
\* Scenario B, which differ in Amount, come out as one row of -45.00 exactly
\* when their source-including fingerprints collide.
C1_ScenarioB_Amended ==
    pc = "done" =>
        /\ ScenarioB =>
              ((Len(df_out) = 1 /\ df_out[1].Amount = Num(-4500))
                  <=> df_hashed[1].CrossKey = df_hashed[2].CrossKey)
        /\ TwinRows =>
              /\ Len(df_out) = 1
              /\ df_out[1].Amount = Num(2 * df_typed[1].Amount.n)

C1_Witness ==
    /\ pc = "done" /\ ScenarioB
    /\ df_hashed[1].CrossKey # df_hashed[2].CrossKey
    /\ Len(df_out) = 2

\* C2: after both phases no two surviving rows share the source-including
\* fingerprint and no two share the source-excluding fingerprint.
C2_NoSharedFingerprints ==
    pc = "done" =>
        \A i, j \in 1..Len(df_out) :
            i # j => /\ df_out[i].CrossKey # df_out[j].CrossKey
                     /\ df_out[i].IntraKey # df_out[j].IntraKey

C2_Witness == pc = "done" /\ Len(df_out) = 2

\* The rows of df_hashed that share the source-including fingerprint F, in
\* batch order: a partition of phase 1.
Partition(F) == Group(df_hashed, "CrossKey", F)

\* The row of df_merged that phase 1 produced for the fingerprint F.
MergedRow(F) ==
    df_merged[CHOOSE k \in 1..Len(df_merged) : df_merged[k].CrossKey = F]

\* The total of the Amount column over the rows g: a number when every
\* amount is one, missing otherwise.
Total(g) ==
    IF \E i \in 1..Len(g) : g[i].Amount.na THEN NaNCell ELSE Num(SumSkipNA(g))

\* C3: in phase 1 a partition of exactly one row passes through unchanged,
\* field by field; a missing Amount stays missing.
C3_SingleRowUnchanged ==
    pc \in {"merged", "done"} =>
        \A i \in 1..Len(df_hashed) :
            Len(Partition(df_hashed[i].CrossKey)) = 1
                => SameOn(MergedRow(df_hashed[i].CrossKey), df_hashed[i],
                          DataColumns \cup {"IntraKey", "CrossKey"})

\* C4: for every partition of phase 1 the Amount of the output row is the
\* total of the Amounts of the partition, and every other field of the output
\* row is that of the first row of the partition in batch order.
C4_SumInvariant ==
    pc \in {"merged", "done"} =>
        \A i \in 1..Len(df_hashed) :
            LET g == Partition(df_hashed[i].CrossKey)
                o == MergedRow(df_hashed[i].CrossKey)
            IN  /\ o.Amount = Total(g)
                /\ SameOn(o, g[1], {"Description", "Category", "SourceFile",
                                    "IntraKey", "CrossKey"})

AllColumns == DataColumns \cup {"IntraKey", "CrossKey", "index"}

\* The batch is two files that each contain the same one row.
SameRowInTwoFiles ==
    /\ Len(df_typed) = 2
    /\ df_typed[1].SourceFile # df_typed[2].SourceFile
    /\ SameOn(df_typed[1], df_typed[2], {"Description", "Category", "Amount"})

\* C5: phase 2 never increases the row count, leaves exactly one row of every
\* partition, and its survivors are rows of its input, not sums; two files
\* that each contain one identical row yield one row with that row's Amount.
C5_PhaseTwoDropsOnly ==
    pc = "done" =>
        /\ Len(df_out) <= Len(df_merged)
        /\ \A i \in 1..Len(df_merged) :
              Cardinality({k \in 1..Len(df_out) :
                              df_out[k].IntraKey = df_merged[i].IntraKey}) = 1
        /\ \A k \in 1..Len(df_out) :
              \E i \in 1..Len(df_merged) : SameOn(df_out[k], df_merged[i], AllColumns)
        /\ SameRowInTwoFiles =>
              (Len(df_out) = 1 /\ df_out[1].Amount = df_typed[1].Amount)

\* C6: two rows have the same source-including fingerprint only if all their
\* normalized field values and their source files are equal.
C6_CrossKeyOnlyIfEqual ==
    \A i, j \in 1..Len(df_hashed) :
        df_hashed[i].CrossKey = df_hashed[j].CrossKey
            => SameOn(df_hashed[i], df_hashed[j], DataColumns)

\* A row identifier: five hex characters, "_", a positive integer.
IsRowID(id) ==
    /\ Len(id) >= HashLen + 2
    /\ \A c \in 1..HashLen : \E h \in 1..Len(HexChars) : HexChars[h] = id[c]
    /\ id[HashLen + 1] = "_"
    /\ AllDigits(SubSeq(id, HashLen + 2, Len(id)))
    /\ DigitsVal(SubSeq(id, HashLen + 2, Len(id))) >= 1

\* C7: every row of the table the pipeline returns is indexed by its row
\* identifier and carries both fingerprint columns and the original columns.
C7_OutputIndexedByRowID ==
    pc = "done" =>
        \A k \in 1..Len(df_out) :
            /\ df_out[k].index.kind = "RowID"
            /\ IsRowID(df_out[k].index.id)
            /\ DataColumns \cup {"IntraKey", "CrossKey"} \subseteq DOMAIN df_out[k]

\* C8: right after identity assignment the row identifiers of the batch are
\* pairwise distinct, and the k-th row (in batch order) of those sharing the
\* fingerprint F has the identifier F_k, k counting from 1.
C8_RowIDsSequential ==
    /\ \A i, j \in 1..Len(df_hashed) :
          i # j => df_hashed[i].index.id # df_hashed[j].index.id
    /\ \A i \in 1..Len(df_hashed) :
          LET id == df_hashed[i].index.id
          IN  /\ df_hashed[i].index.kind = "RowID"
              /\ IsRowID(id)
              /\ SubSeq(id, 1, HashLen) = HexStr(df_hashed[i].CrossKey, HashLen)
              /\ DigitsVal(SubSeq(id, HashLen + 2, Len(id)))
                    = Cardinality({j \in 1..i :
                                      df_hashed[j].CrossKey = df_hashed[i].CrossKey})

C8_Witness ==
    /\ pc = "hashed"
    /\ Len(df_hashed) = 2
    /\ df_hashed[1].CrossKey = df_hashed[2].CrossKey
    /\ df_hashed[2].index.id = HexStr(df_hashed[2].CrossKey, HashLen) \o <<"_", "2">>

----------------------------------------------------------------------------
(* Properties of the rule engine *)

\* The rules before the catch-all whose condition is met by the item.
SpecificMatches(it) ==
    {r \in 1..(Len(Rules) - 1) : Condition(r, it) = Ret(TRUE)}

\* C9: classify_item never raises and returns a Category, never None, for
\* every item, malformed ones included; a rule whose condition raises is
\* treated as not matching and the next rule is evaluated.
C9_ClassificationTotal ==
    /\ result.status # "raised"
    /\ pc = "classify" =>
          \A r \in 1..(ruleIdx - 1) : Condition(r, item) # Ret(TRUE)
    /\ pc = "returned" =>
          /\ result.status = "returned"
          /\ result.category \in Categories
          /\ Condition(ruleIdx, item) = Ret(TRUE)
          /\ \A r \in 1..(ruleIdx - 1) : Condition(r, item) # Ret(TRUE)

C9_Witness ==
    /\ pc = "returned"
    /\ item.kind = "None"
    /\ result = [status |-> "returned", category |-> "UNCATEGORIZED"]

\* C10 as stated: an item that meets no specific rule is given "uncategorized
\* spending" when its amount is below 0, "uncategorized income" otherwise.
C10_CatchAllBySign_Original ==
    (pc = "returned" /\ SpecificMatches(item) = {} /\ "Amount" \in item.keys)
        => \/ item.Amount < 0 /\ result.category = "uncategorized spending"
           \/ item.Amount >= 0 /\ result.category = "uncategorized income"

\* C10, amended: an item that meets no specific rule is classified by the
\* catch-all rule as Category.UNCATEGORIZED, "Uncategorized", whatever the
\* sign of its amount.
C10_CatchAllUncategorized ==
    (pc = "returned" /\ SpecificMatches(item) = {})
        => /\ ruleIdx = Len(Rules)
           /\ result = [status |-> "returned", category |-> "UNCATEGORIZED"]
           /\ CategoryValue[result.category] = "Uncategorized"

C10_Witness ==
    /\ pc = "returned"
    /\ SpecificMatches(item) = {}
    /\ "Amount" \in item.keys /\ item.Amount < 0
    /\ result.category = "UNCATEGORIZED"

\* The rules whose condition holds on the item: it evaluates to True; a
\* condition that raises does not hold.
Matching(it) == {r \in 1..Len(Rules) : Condition(r, it) = Ret(TRUE)}

\* C11: classify_item returns the category of the rule with the smallest
\* index whose condition holds on the item; no later matching rule, and not
\* the catch-all, overrides it.  An item with Category "Paycheck/Salary" is
\* SALARY whatever its amount.
C11_FirstMatchWins ==
    pc = "returned" =>
        /\ Matching(item) # {}
        /\ \A r \in Matching(item) :
              (\A q \in Matching(item) : r <= q)
                  => result = [status |-> "returned", category |-> Rules[r].category]
        /\ (item.kind = "dict" /\ "Category" \in item.keys
               /\ item.Category = "Paycheck/Salary")
              => result.category = "SALARY"

C11_Witness ==
    /\ pc = "returned"
    /\ item.kind = "dict" /\ item.keys = {"Category", "Amount"}
    /\ item.Category = "Paycheck/Salary" /\ item.Amount < 0
    /\ Matching(item) = {4, 7}
    /\ result.category = "SALARY"

----------------------------------------------------------------------------
(* Properties of the flag conversion *)

TrueWords == { <<"y", "e", "s">>, <<"y">>, <<"t", "r", "u", "e">> }

\* C12: in both pipelines the flag columns map "yes", "y" and "true" to true
\* and "no", "n", "false" and every other value, empty included, to false,
\* whatever the case of the letters; no flag comes out missing.
C12_FlagNormalization ==
    pc = "flags_typed" =>
        \A c \in FlagColumns :
            flags_out[c] = IF Lower(TextStr(flags_in[c])) \in TrueWords
                           THEN "True" ELSE "False"

----------------------------------------------------------------------------
(* Algebraic properties of the de-duplication *)

KeyColumns == {"CrossKey", "IntraKey"}

\* C13: coalescing is idempotent: coalescing the coalesced table again by the
\* same key gives the same rows with the same field values, for the phase-1
\* key and for the other key column alike.
C13_CoalesceIdempotent ==
    pc \in {"hashed", "merged", "done"} =>
        /\ \A key \in KeyColumns :
              Coalesce(Coalesce(df_hashed, key), key) = Coalesce(df_hashed, key)
        /\ pc # "hashed" => Coalesce(df_merged, "CrossKey") = df_merged

\* Phase 1 has merged two rows, one of them with a missing amount, and the
\* merged table is a fixed point of phase 1.
C13_Witness ==
    /\ pc = "merged"
    /\ Len(df_hashed) = 2 /\ Len(df_merged) = 1
    /\ \E i \in 1..2 : df_hashed[i].Amount.na
    /\ Coalesce(df_merged, "CrossKey") = df_merged

\* The position in df of the first row that has the source-excluding
\* fingerprint of row i: the row that phase 2 keeps for it.
Survivor(df, i) ==
    CHOOSE j \in 1..i :
        /\ df[j].IntraKey = df[i].IntraKey
        /\ \A k \in 1..(j - 1) : df[k].IntraKey # df[i].IntraKey

\* The columns that are not provenance.
ValueColumns == {"Description", "Category", "Amount"}

\* C14: every row that phase 2 discards has the amount, description and
\* category of the row that survives for its fingerprint, also when the two
\* files hold the row a different number of times.
C14_DiscardedEqualsSurvivor ==
    pc = "done" =>
        \A i \in 1..Len(df_merged) :
            Survivor(df_merged, i) # i =>
                SameOn(df_merged[i], df_merged[Survivor(df_merged, i)],
                       ValueColumns)

----------------------------------------------------------------------------
(* The Ally HYSA rule *)

\* C15: an item whose Category is "Transfers" and whose Description contains
\* "ALLY BANK DES", in any case of the letters, is classified as SAVINGS.
C15_AllyIsSavings ==
    (/\ pc = "returned"
     /\ item.kind = "dict"
     /\ {"Category", "Description"} \subseteq item.keys
     /\ item.Category = "Transfers"
     /\ Contains(Lower(item.Description), Lower(AllyText)))
        => result = [status |-> "returned", category |-> "SAVINGS"]

----------------------------------------------------------------------------
(* Which copy survives *)

\* C16: for every source-excluding fingerprint of the batch, the row that
\* survives phase 2 is the first occurrence in batch order: it has the
\* source-including fingerprint and the file of the first row of the batch
\* with that fingerprint, whatever the values of the fingerprints.
C16_FirstInBatchSurvives ==
    pc = "done" =>
        \A i \in 1..Len(df_hashed) :
            Survivor(df_hashed, i) = i =>
                \E k \in 1..Len(df_out) :
                    /\ df_out[k].IntraKey = df_hashed[i].IntraKey
                    /\ df_out[k].CrossKey = df_hashed[i].CrossKey
                    /\ df_out[k].SourceFile = df_hashed[i].SourceFile

====
